---- MODULE Spec2Model ----
(***************************************************************************)
(* A model of frappe/build.py: the asset stager (make_asset_dirs, symlink) *)
(* over a small filesystem with symbolic links, and the bundle pipeline    *)
(* (get_build_maps, pack, files_dirty).                                    *)
(***************************************************************************)
EXTENDS Integers, Sequences, FiniteSets, TLC

VARIABLES fs, pc, restore, make_copy, appIdx, symlinks, removed, log, runs

\* the bundle pipeline: the manifests and sources on disk, the module's
\* timestamps, the target files written, and the last call made
VARIABLES manifest, mtime, timestamps, outputs, last, touches

stageVars == <<fs, pc, restore, make_copy, appIdx, symlinks, removed, log, runs>>

buildVars == <<manifest, mtime, timestamps, outputs, last, touches>>

\* single calls: the content of an html file and the statement made of it;
\* the last call of symlink
VARIABLES html, registered, linkcall

callVars == <<html, registered, linkcall>>

vars == <<stageVars, buildVars, callVars>>

----------------------------------------------------------------------------
(* Bounds of the model *)

\* staging runs (calls of make_asset_dirs) in one behaviour
MaxRuns == 2
\* depth of the directory trees below a staged source
MaxDepth == 2
\* symlink hops followed while resolving one path
MaxHops == 4

----------------------------------------------------------------------------
(* The filesystem: a map from the physical path of every entry (a sequence *)
(* of names below the root) to the entry.                                   *)

Dir == [k |-> "dir", d |-> "", to |-> <<>>]
File(data) == [k |-> "file", d |-> data, to |-> <<>>]
Link(to) == [k |-> "link", d |-> "", to |-> to]

NoPath == <<"!">>

IsPrefix(p, q) == Len(p) <= Len(q) /\ SubSeq(q, 1, Len(p)) = p

Has(f, p) == p = <<>> \/ p \in DOMAIN f

Kind(f, p) == IF p = <<>> THEN "dir" ELSE f[p].k

\* the physical path that path done \o rest names, following every symbolic
\* link on the way (and the last one, when followLast); NoPath when there is
\* none
RECURSIVE Walk(_, _, _, _, _)
Walk(f, done, rest, followLast, hops) ==
    IF rest = <<>> THEN done
    ELSE LET q == Append(done, Head(rest))
             more == Tail(rest)
         IN IF ~Has(f, q) THEN (IF more = <<>> /\ ~followLast THEN q ELSE NoPath)
            ELSE IF f[q].k = "link"
                 THEN IF more = <<>> /\ ~followLast THEN q
                      ELSE IF hops = 0 THEN NoPath
                      ELSE Walk(f, <<>>, f[q].to \o more, followLast, hops - 1)
            ELSE IF f[q].k = "dir" THEN Walk(f, q, more, followLast, hops)
            ELSE IF more = <<>> THEN q ELSE NoPath

\* stat: the entry a path leads to, links followed
Resolve(f, p) == Walk(f, <<>>, p, TRUE, MaxHops)

\* lstat: where the entry named by p itself lives (its directory resolved)
LLoc(f, p) == Walk(f, <<>>, p, FALSE, MaxHops)

path_exists(f, p) == Resolve(f, p) # NoPath /\ Has(f, Resolve(f, p))

path_lexists(f, p) == LLoc(f, p) # NoPath /\ Has(f, LLoc(f, p))

path_islink(f, p) == path_lexists(f, p) /\ Kind(f, LLoc(f, p)) = "link"

path_isdir(f, p) == path_exists(f, p) /\ Kind(f, Resolve(f, p)) = "dir"

dirname(p) == SubSeq(p, 1, Len(p) - 1)

\* os.path.abspath of an absolute path: "x/.." pairs are dropped lexically
RECURSIVE abspath(_)
abspath(p) ==
    IF \E i \in 2..Len(p) : p[i] = ".."
    THEN LET i == CHOOSE j \in 2..Len(p) : p[j] = ".." /\ \A h \in 2..(j - 1) : p[h] # ".."
         IN abspath(SubSeq(p, 1, i - 2) \o SubSeq(p, i + 1, Len(p)))
    ELSE p

Without(f, gone) == [q \in DOMAIN f \ gone |-> f[q]]

Below(f, p) == {q \in DOMAIN f : IsPrefix(p, q)}

\* the result of a filesystem call: the filesystem after it, the exception it
\* raised ("ok" when none), and the physical paths of the entries it deleted
R(f, e, rm) == [fs |-> f, err |-> e, rm |-> rm]

----------------------------------------------------------------------------
(* The os and shutil calls the stager makes *)

\* os.symlink(target, link_name): fails when the name is taken
os_symlink(f, target, link_name) ==
    LET loc == LLoc(f, link_name)
    IN IF loc = NoPath THEN R(f, "FileNotFoundError", {})
       ELSE IF Has(f, loc) THEN R(f, "FileExistsError", {})
       ELSE R((loc :> Link(target)) @@ f, "ok", {})

\* os.unlink(p), os.remove(p): deletes the entry p names, never what a link
\* points to
os_unlink(f, p) ==
    LET loc == LLoc(f, p)
    IN IF loc = NoPath \/ ~Has(f, loc) \/ loc = <<>> THEN R(f, "FileNotFoundError", {})
       ELSE IF f[loc].k = "dir" THEN R(f, "IsADirectoryError", {})
       ELSE R(Without(f, {loc}), "ok", {loc})

\* shutil.rmtree(p): deletes the directory p names and all below it; links
\* inside are unlinked, not followed; p itself must not be a link
shutil_rmtree(f, p) ==
    LET loc == LLoc(f, p)
    IN IF loc = NoPath \/ ~Has(f, loc) \/ loc = <<>> THEN R(f, "FileNotFoundError", {})
       ELSE IF f[loc].k = "link" THEN R(f, "OSError", {})
       ELSE IF f[loc].k = "file" THEN R(f, "NotADirectoryError", {})
       ELSE R(Without(f, Below(f, loc)), "ok", Below(f, loc))

\* os.replace(src, dst): renames the entry src onto dst, replacing a file or
\* link there; a non-directory cannot replace a directory
os_replace(f, src, dst) ==
    LET sl == LLoc(f, src)
        dl == LLoc(f, dst)
    IN IF sl = NoPath \/ ~Has(f, sl) \/ dl = NoPath THEN R(f, "FileNotFoundError", {})
       ELSE IF Has(f, dl) /\ Kind(f, dl) = "dir" /\ f[sl].k # "dir"
            THEN R(f, "IsADirectoryError", {})
       ELSE R((dl :> f[sl]) @@ Without(f, {sl, dl}), "ok", {})

\* os.makedirs(p): p and every missing directory above it; fails when p is
\* taken (a dangling link counts)
RECURSIVE os_makedirs(_, _)
os_makedirs(f, p) ==
    LET up == IF p = <<>> \/ path_exists(f, dirname(p)) THEN R(f, "ok", {})
              ELSE os_makedirs(f, dirname(p))
        loc == LLoc(up.fs, p)
    IN IF up.err # "ok" THEN up
       ELSE IF loc = NoPath THEN R(up.fs, "FileNotFoundError", {})
       ELSE IF Has(up.fs, loc) THEN R(up.fs, "FileExistsError", {})
       ELSE R((loc :> Dir) @@ up.fs, "ok", {})

\* the names in the directory at physical path d
Listdir(f, d) == {q[Len(q)] : q \in {q \in DOMAIN f : Len(q) = Len(d) + 1 /\ IsPrefix(d, q)}}

\* the relative paths that lead somewhere below the directory at physical
\* path d, links followed, down to depth n
RECURSIVE Rels(_, _, _)
Rels(f, d, n) ==
    {<<>>} \cup
    (IF n = 0 \/ Kind(f, d) # "dir" THEN {}
     ELSE UNION {LET e == Resolve(f, Append(d, c))
                 IN IF e = NoPath THEN {}
                    ELSE {<<c>> \o r : r \in Rels(f, e, n - 1)} : c \in Listdir(f, d)})

\* the entries in or below the directory at physical path d, links followed,
\* that are links leading nowhere
RECURSIVE Broken(_, _, _)
Broken(f, d, n) ==
    IF n = 0 \/ Kind(f, d) # "dir" THEN {}
    ELSE UNION {LET e == Resolve(f, Append(d, c))
                IN IF e = NoPath THEN {Append(d, c)} ELSE Broken(f, e, n - 1)
                : c \in Listdir(f, d)}

\* a copy that makes the destination directory and copies nothing into it
shutil_copytree_shallow(f, src, dst) ==
    LET from == Resolve(f, src)
        made == os_makedirs(f, dst)
    IN IF from = NoPath THEN R(f, "FileNotFoundError", {})
       ELSE IF Kind(f, from) # "dir" THEN R(f, "NotADirectoryError", {})
       ELSE made

\* shutil.copytree(src, dst) with symlinks=False: dst must not exist (not even
\* as a dangling link); missing parents are made; every entry below src is
\* copied with links followed, so the copy holds directories and files only;
\* a link below src that leads nowhere is reported after the rest is copied
shutil_copytree(f, src, dst) ==
    LET from == Resolve(f, src)
        made == os_makedirs(f, dst)
        to == LLoc(made.fs, dst)
    IN IF from = NoPath THEN R(f, "FileNotFoundError", {})
       ELSE IF Kind(f, from) # "dir" THEN R(f, "NotADirectoryError", {})
       ELSE IF made.err # "ok" THEN made
       ELSE LET rels == Rels(f, from, MaxDepth)
                broken == Broken(f, from, MaxDepth)
                copy == [q \in {to \o r : r \in rels} |->
                           LET r == SubSeq(q, Len(to) + 1, Len(q))
                               e == Resolve(f, from \o r)
                           IN IF Kind(f, e) = "dir" THEN Dir ELSE File(f[e].d)]
            IN R(copy @@ made.fs, IF broken = {} THEN "ok" ELSE "Error", {})

----------------------------------------------------------------------------
(* symlink: the atomic replacement of a link *)

TempNames == <<"tmp0", "tmp1">>

\* tempfile.mktemp(dir=link_dir): a name in link_dir that is not taken
mktemp(f, link_dir) ==
    LET free == {i \in 1..Len(TempNames) : ~path_lexists(f, Append(link_dir, TempNames[i]))}
    IN Append(link_dir, TempNames[CHOOSE i \in free : \A j \in free : i <= j])

\* a replacement that leaves the temporary link behind when it fails
replace_link_keeps_temp(f, temp_link_name, link_name) ==
    IF path_isdir(f, link_name) THEN R(f, "IsADirectoryError", {})
    ELSE os_replace(f, temp_link_name, link_name)

\* lines 157-169: with the temporary link made, replace link_name by it; a
\* directory at link_name is refused; on any failure the temporary link is
\* removed and the exception raised again
replace_link(f, temp_link_name, link_name) ==
    LET moved == IF path_isdir(f, link_name) THEN R(f, "IsADirectoryError", {})
                 ELSE os_replace(f, temp_link_name, link_name)
        clean == IF path_islink(moved.fs, temp_link_name)
                 THEN os_unlink(moved.fs, temp_link_name)
                 ELSE R(moved.fs, "ok", {})
    IN IF moved.err = "ok" THEN moved
       ELSE R(clean.fs, IF clean.err = "ok" THEN moved.err ELSE clean.err, clean.rm)

\* a symlink that never overwrites
symlink_no_overwrite(f, target, link_name, overwrite) == os_symlink(f, target, link_name)

symlink(f, target, link_name, overwrite) ==
    IF ~overwrite THEN os_symlink(f, target, link_name)
    ELSE LET link_dir == dirname(link_name)
             temp_link_name == mktemp(f, link_dir)
             made == os_symlink(f, target, temp_link_name)
         IN IF made.err # "ok" THEN made
            ELSE replace_link(made.fs, temp_link_name, link_name)

----------------------------------------------------------------------------
(* make_asset_dirs *)

\* frappe.get_all_apps(True), in order
Apps == <<"a1", "a2">>

DocsAlias == [a1 |-> "a1_docs", a2 |-> "a2_docs"]

assets_path == <<"assets">>

\* os.path.abspath(os.path.dirname(pymodule.__file__))
app_base_path(app_name) == <<"apps", app_name, app_name>>

\* lines 239-260: the [source, target] pairs of one application, computed
\* from the filesystem as it is when the application's turn comes
app_symlinks(f, app_name) ==
    LET base == app_base_path(app_name)
        app_public_path == base \o <<"public">>
        first == << <<app_public_path, assets_path \o <<app_name>> >> >>
        nm == IF path_exists(f, abspath(app_public_path))
              THEN << <<base \o <<"..", "node_modules">>,
                        assets_path \o <<app_name, "node_modules">> >> >>
              ELSE <<>>
        app_doc_path == IF path_isdir(f, base \o <<"docs">>) THEN base \o <<"docs">>
                        ELSE IF path_isdir(f, base \o <<"www", "docs">>)
                             THEN base \o <<"www", "docs">>
                             ELSE <<>>
        docs == IF app_doc_path # <<>>
                THEN << <<app_doc_path, assets_path \o <<DocsAlias[app_name]>> >> >>
                ELSE <<>>
    IN first \o nm \o docs

\* a removal that unlinks a link and leaves a directory where it is
remove_target_links_only(f, target) ==
    IF path_islink(f, target) THEN os_unlink(f, target) ELSE R(f, "ok", {})

\* lines 267-270 and 279-282: unlink a link, delete a directory recursively
remove_target(f, target) ==
    IF path_islink(f, target) THEN os_unlink(f, target) ELSE shutil_rmtree(f, target)

\* the outcome of staging one alias: the filesystem, the exception that leaves
\* make_asset_dirs ("ok" when none), the entries deleted, and what was done
Outcome(r, out) == [fs |-> r.fs, err |-> r.err, rm |-> r.rm, out |-> out, caught |-> "ok"]

\* lines 265-271
stage_restore(f, source, target) ==
    IF path_exists(f, target)
    THEN LET gone == remove_target(f, target)
             copied == shutil_copytree(gone.fs, source, target)
         IN IF gone.err # "ok" THEN Outcome(gone, "raised")
            ELSE IF copied.err # "ok" THEN Outcome(R(copied.fs, copied.err, gone.rm), "raised")
            ELSE Outcome(R(copied.fs, "ok", gone.rm), "restored")
    ELSE Outcome(R(f, "ok", {}), "nothing")

\* lines 272-276
stage_copy(f, source, target) ==
    IF path_exists(f, target) THEN Outcome(R(f, "ok", {}), "warned")
    ELSE LET copied == shutil_copytree(f, source, target)
         IN Outcome(copied, IF copied.err = "ok" THEN "copied" ELSE "raised")

\* lines 277-286: only the exception of symlink is caught
stage_link(f, source, target) ==
    LET gone == IF path_exists(f, target) THEN remove_target(f, target) ELSE R(f, "ok", {})
        linked == symlink(gone.fs, source, target, TRUE)
    IN IF gone.err # "ok" THEN Outcome(gone, "raised")
       ELSE IF linked.err # "ok"
            THEN [Outcome(R(linked.fs, "ok", gone.rm \cup linked.rm), "cannot_link")
                     EXCEPT !.caught = linked.err]
            ELSE Outcome(R(linked.fs, "ok", gone.rm \cup linked.rm), "linked")

\* lines 262-289: the body of the loop over the pairs
stage_alias(f, rs, mc, source0, target) ==
    LET source == abspath(source0)
    IN IF path_exists(f, source)
       THEN IF rs THEN stage_restore(f, source, target)
            ELSE IF mc THEN stage_copy(f, source, target)
            ELSE stage_link(f, source, target)
       ELSE Outcome(R(f, "ok", {}), "no_source")

----------------------------------------------------------------------------
(* The state of the stager and its initial filesystems *)

FsOf(entries) ==
    [q \in {e[1] : e \in entries} |-> (CHOOSE e \in entries : e[1] = q)[2]]

\* one application's source tree
SourceEntries(a, hasPublic, ownModules, hasModules, docsAt) ==
    LET base == app_base_path(a)
    IN {<<SubSeq(base, 1, n), Dir>> : n \in 1..Len(base)}
       \cup (IF hasPublic
             THEN {<<base \o <<"public">>, Dir>>,
                   <<base \o <<"public", "f.js">>, File("P")>>}
             ELSE {})
       \cup (IF hasPublic /\ ownModules
             THEN {<<base \o <<"public", "node_modules">>, Dir>>,
                   <<base \o <<"public", "node_modules", "x.js">>, File("X")>>}
             ELSE {})
       \cup (IF hasModules
             THEN {<<<<"apps", a, "node_modules">>, Dir>>,
                   <<<<"apps", a, "node_modules", "m.js">>, File("N")>>}
             ELSE {})
       \cup (IF docsAt = "docs"
             THEN {<<base \o <<"docs">>, Dir>>,
                   <<base \o <<"docs", "d.html">>, File("D")>>}
             ELSE IF docsAt = "www"
             THEN {<<base \o <<"www">>, Dir>>, <<base \o <<"www", "docs">>, Dir>>,
                   <<base \o <<"www", "docs", "d.html">>, File("D")>>}
             ELSE {})

AliasKinds == {"none", "dir", "current", "stale", "dangling"}

\* what is at assets/<app> before the first run
AliasEntries(a, kind) ==
    LET alias == assets_path \o <<a>>
    IN {<<<<"old">>, Dir>>, <<<<"old", a>>, Dir>>, <<<<"old", a, "o.js">>, File("O")>>}
       \cup (CASE kind = "none" -> {}
               [] kind = "dir" -> {<<alias, Dir>>, <<alias \o <<"o.js">>, File("O")>>}
               [] kind = "current" -> {<<alias, Link(app_base_path(a) \o <<"public">>)>>}
               [] kind = "stale" -> {<<alias, Link(<<"old", a>>)>>}
               [] kind = "dangling" -> {<<alias, Link(<<"gone", a>>)>>})

\* the logical content below a path, links followed
Tree(f, p) ==
    IF Resolve(f, p) = NoPath THEN <<>>
    ELSE [r \in Rels(f, Resolve(f, p), MaxDepth) |->
             LET e == Resolve(f, p \o r)
             IN IF Kind(f, e) = "dir" THEN Dir ELSE File(f[e].d)]

\* the entries physically in or below what a path leads to
SubFs(f, p) ==
    IF Resolve(f, p) = NoPath THEN <<>>
    ELSE [q \in Below(f, Resolve(f, p)) |-> f[q]]

\* what a path holds: "none", "dangling" (a link that leads nowhere), "link",
\* "dir" or "file"
StateOf(f, p) ==
    IF ~path_lexists(f, p) THEN "none"
    ELSE IF path_islink(f, p) THEN (IF path_exists(f, p) THEN "link" ELSE "dangling")
    ELSE Kind(f, LLoc(f, p))

StageInit ==
    /\ \E pub \in [1..Len(Apps) -> BOOLEAN], own \in [1..Len(Apps) -> BOOLEAN],
          mods \in [1..Len(Apps) -> BOOLEAN], docs \in [1..Len(Apps) -> {"none", "docs", "www"}],
          kind \in [1..Len(Apps) -> AliasKinds] :
          /\ \A i \in 1..Len(Apps) : own[i] => pub[i]
          \* the later applications vary less than the first
          /\ \A i \in 2..Len(Apps) : ~own[i] /\ mods[i] = pub[i] /\ docs[i] # "docs"
                                       /\ kind[i] \in {"none", "current", "dir"}
          /\ docs[1] # "www"
          /\ fs = FsOf({<<assets_path, Dir>>}
                       \cup UNION {SourceEntries(Apps[i], pub[i], own[i], mods[i], docs[i])
                                   \cup AliasEntries(Apps[i], kind[i]) : i \in 1..Len(Apps)})
    /\ pc = "idle"
    /\ restore = FALSE
    /\ make_copy = FALSE
    /\ appIdx = 0
    /\ symlinks = <<>>
    /\ removed = {}
    /\ log = <<>>
    /\ runs = 0

\* make_asset_dirs(make_copy, restore) is called: lines 229-233
MakeAssetDirs ==
    /\ pc \in {"idle", "raised"}
    /\ runs < MaxRuns
    /\ \E mc \in BOOLEAN, rs \in BOOLEAN :
          /\ make_copy' = mc
          /\ restore' = rs
    /\ fs' = LET js == assets_path \o <<"js">>
                 css == assets_path \o <<"css">>
                 f1 == IF path_exists(fs, js) THEN fs ELSE os_makedirs(fs, js).fs
             IN IF path_exists(f1, css) THEN f1 ELSE os_makedirs(f1, css).fs
    /\ pc' = "app"
    /\ appIdx' = 1
    /\ symlinks' = <<>>
    /\ log' = <<>>
    /\ runs' = runs + 1
    /\ UNCHANGED removed

\* line 235-260: the next application's pairs
NextApp ==
    /\ pc = "app"
    /\ appIdx <= Len(Apps)
    /\ symlinks' = app_symlinks(fs, Apps[appIdx])
    /\ pc' = "alias"
    /\ UNCHANGED <<fs, restore, make_copy, appIdx, removed, log, runs>>

\* lines 262-289: one pair is staged; an exception leaves make_asset_dirs
StageAlias ==
    /\ pc = "alias"
    /\ symlinks # <<>>
    /\ \E source \in {Head(symlinks)[1]}, target \in {Head(symlinks)[2]} :
       \E done \in {stage_alias(fs, restore, make_copy, source, target)} :
          /\ fs' = done.fs
          /\ removed' = removed \cup done.rm
          /\ log' = Append(log, [source |-> abspath(source), target |-> target,
                                 pre |-> StateOf(fs, target),
                                 preTo |-> IF path_islink(fs, target)
                                           THEN fs[LLoc(fs, target)].to ELSE <<>>,
                                 preTree |-> Tree(fs, target),
                                 preSrc |-> SubFs(fs, abspath(source)),
                                 srcExists |-> path_exists(fs, abspath(source)),
                                 preFs |-> fs, rm |-> done.rm,
                                 out |-> done.out, caught |-> done.caught,
                                 err |-> done.err])
          /\ IF done.err = "ok"
             THEN pc' = "alias" /\ symlinks' = Tail(symlinks)
             ELSE pc' = "raised" /\ symlinks' = symlinks
    /\ UNCHANGED <<restore, make_copy, appIdx, runs>>

\* the pairs of one application are exhausted
EndApp ==
    /\ pc = "alias"
    /\ symlinks = <<>>
    /\ appIdx' = appIdx + 1
    /\ pc' = "app"
    /\ UNCHANGED <<fs, restore, make_copy, symlinks, removed, log, runs>>

\* make_asset_dirs returns
Return ==
    /\ pc = "app"
    /\ appIdx > Len(Apps)
    /\ pc' = "idle"
    /\ UNCHANGED <<fs, restore, make_copy, appIdx, symlinks, removed, log, runs>>

StageNext == MakeAssetDirs \/ NextApp \/ StageAlias \/ EndApp \/ Return

----------------------------------------------------------------------------
(* Claims about the stager *)

LinkMode == ~restore /\ ~make_copy

\* the pair staged last (the filesystem has not changed since)
Last == log[Len(log)]

IsTemp(q) == q # <<>> /\ \E i \in 1..Len(TempNames) : q[Len(q)] = TempNames[i]

\* the alias is a real directory holding exactly what it held before
Untouched(e) == StateOf(fs, e.target) = "dir" /\ Tree(fs, e.target) = e.preTree

\* the alias is a link to the source
LinksTo(e) == path_islink(fs, e.target) /\ fs[LLoc(fs, e.target)].to = e.source

\* C1 as stated: in link mode an alias that is a real directory (source
\* existing) is refused with the directory-collision error and the directory
\* is left as it was.
C1_DirectoryRefused ==
    (log # <<>> /\ LinkMode /\ Last.pre = "dir" /\ Last.srcExists)
        => (Last.caught = "IsADirectoryError" /\ Untouched(Last))

\* C1 amended: in link mode an alias that is a real directory (source
\* existing) is deleted recursively and replaced by a link to the source; no
\* directory-collision error is raised or reported.
C1_DirectoryReplaced ==
    (log # <<>> /\ LinkMode /\ Last.pre = "dir" /\ Last.srcExists)
        => /\ Last.out = "linked" /\ Last.caught = "ok" /\ Last.err = "ok"
           /\ LinksTo(Last)
           /\ LLoc(fs, Last.target) \in removed

C1_Witness ==
    log # <<>> /\ LinkMode /\ Last.pre = "dir" /\ Last.srcExists /\ Last.out = "linked"

\* C2: every entry staging deletes lies inside the assets root.
C2_DeletesOnlyInAssets == \A q \in removed : IsPrefix(assets_path, q)

\* C3: when make_asset_dirs returns from a link-mode run, every alias that
\* was a symbolic link before it was staged (source existing) is a link to
\* its source, and no temporary link is left anywhere.
C3_StaleLinkReplaced ==
    (pc = "idle" /\ runs > 0 /\ LinkMode)
        => /\ \A i \in 1..Len(log) :
                (log[i].pre \in {"link", "dangling"} /\ log[i].srcExists) => LinksTo(log[i])
           /\ \A q \in DOMAIN fs : ~IsTemp(q)

C3_Witness ==
    /\ pc = "idle" /\ runs > 0 /\ LinkMode
    /\ \E i \in 1..Len(log) : log[i].pre = "link" /\ log[i].preTo # log[i].source
                              /\ log[i].srcExists /\ LinksTo(log[i])

\* the alias is a real directory tree without links that holds what the
\* source holds, and the source is as it was
CopyOfSource(e) ==
    /\ StateOf(fs, e.target) = "dir"
    /\ \A q \in Below(fs, LLoc(fs, e.target)) : fs[q].k # "link"
    /\ Tree(fs, e.target) = Tree(fs, e.source)
    /\ SubFs(fs, e.source) = e.preSrc

CopyMode == make_copy /\ ~restore

\* C12: in copy mode (source existing) an alias that exists is left as it is,
\* with a warning, and nothing else on disk changes; where there is no alias
\* the source tree is copied there; a link that leads nowhere may count as
\* either. No entry is deleted.
C12_CopyLeavesOrCopies ==
    (log # <<>> /\ CopyMode /\ Last.srcExists)
        => /\ Last.rm = {}
           /\ Last.pre \in {"link", "dir", "file"} => (Last.out = "warned" /\ fs = Last.preFs)
           /\ Last.pre = "none" => (Last.out = "copied" /\ CopyOfSource(Last))
           /\ Last.pre = "dangling" =>
                 \/ Last.out = "warned" /\ fs = Last.preFs
                 \/ Last.out = "copied" /\ CopyOfSource(Last)

\* C14: in restore mode, where there is no alias before staging (source
\* existing), the alias is afterwards a real directory copy of the source.
C14_AbsentAliasRestored ==
    (log # <<>> /\ restore /\ Last.pre = "none" /\ Last.srcExists) => CopyOfSource(Last)

\* C6: no failure of staging one alias leaves make_asset_dirs with an
\* exception: each is caught, and the run goes on to the remaining aliases.
C6_FailuresStayLocal == pc # "raised" /\ \A i \in 1..Len(log) : log[i].err = "ok"

----------------------------------------------------------------------------
(* The bundle pipeline: strings, manifests and the disk *)

\* changes of a source's modification time in one behaviour
MaxTouches == 1

\* lines 172-180: the applications whose module imports, in order
app_paths == <<"a1", "a2", "a3">>

\* A file name is the sequence of its parts between dots; a source string is
\* the sequence of its parts between colons, each a name. "g.js:concat" is
\* << <<"g", "js">>, <<"concat">> >>.
F_js == << <<"f", "js">> >>
G_concat == << <<"g", "js">>, <<"concat">> >>
T_html == << <<"t", "html">> >>
Gone_js == << <<"gone", "js">> >>
Lib_dir == << <<"lib">> >>
\* "e.js" (a file with nothing in it to keep), "e.js:concat", "m.min.js",
\* "README" (a name without a dot), "f.js:concat:x" (two colons)
E_js == << <<"e", "js">> >>
E_concat == << <<"e", "js">>, <<"concat">> >>
M_min == << <<"m", "min", "js">> >>
Readme == << <<"README">> >>
Two_colons == << <<"f", "js">>, <<"concat">>, <<"x">> >>

\* a manifest's source descriptors: a string, or a [module, path] pair
Plain(s) == [tag |-> "str", module |-> "", s |-> s]
Pair(m, s) == [tag |-> "list", module |-> m, s |-> s]

\* target keys, as names: "js/out.js", "css/out.css"
JsTarget == <<"js/out", "js">>
CssTarget == <<"css/out", "css">>

\* os.path.join(app_path, source): the path of a source
join(root, s) == [root |-> root, s |-> s]

\* frappe.get_pymodule_path(module, *parts): below the module's directory
get_pymodule_path(module, s) == join(app_base_path(module), s)

\* the disk below the applications: "lib" is a directory, "gone.js" does not
\* exist, every other name is a regular file
Stem(f) == f.s[1][1]

source_exists(f) == Len(f.s) = 1 /\ Stem(f) # "gone"

source_isdir(f) == Len(f.s) = 1 /\ Stem(f) = "lib"

\* f.rsplit(".", 1): the name before and after its last dot
rsplit_dot(f) ==
    LET name == f.s[1]
    IN IF Len(name) > 1 THEN <<SubSeq(name, 1, Len(name) - 1), <<name[Len(name)]>> >>
       ELSE <<name>>

\* ".min." in f
has_min_marker(f) == \E i \in 2..(Len(f.s[1]) - 1) : f.s[1][i] = "min"

----------------------------------------------------------------------------
(* get_build_maps *)

\* lines 311-317: one target's descriptors, resolved
RECURSIVE source_paths(_, _)
source_paths(app_name, sources) ==
    IF sources = <<>> THEN <<>>
    ELSE LET source == Head(sources)
             s == IF source.tag = "list" THEN get_pymodule_path(source.module, source.s)
                  ELSE join(app_base_path(app_name), source.s)
         IN <<s>> \o source_paths(app_name, Tail(sources))

\* a merge in which the first application to declare a target keeps it
load_manifest_first_wins(build_maps, app_name, m) ==
    IF ~m.present THEN build_maps
    ELSE IF ~m.valid THEN build_maps
    ELSE build_maps @@ [t \in DOMAIN m.map |-> source_paths(app_name, m.map[t])]

\* a merge that takes what a file was meant to hold although it does not parse
load_manifest_lenient(build_maps, app_name, m) ==
    IF ~m.present THEN build_maps
    ELSE [t \in DOMAIN m.map |-> source_paths(app_name, m.map[t])] @@ build_maps

\* lines 305-322: one application's manifest file, merged into build_maps; a
\* file that does not parse raises ValueError, which is caught and printed
load_manifest(build_maps, app_name, m) ==
    IF ~m.present THEN build_maps
    ELSE IF ~m.valid THEN build_maps
    ELSE [t \in DOMAIN m.map |-> source_paths(app_name, m.map[t])] @@ build_maps

\* lines 303-323, from the i-th application on
RECURSIVE build_maps_from(_, _, _)
build_maps_from(man, i, build_maps) ==
    IF i > Len(app_paths) THEN build_maps
    ELSE build_maps_from(man, i + 1, load_manifest(build_maps, app_paths[i], man[app_paths[i]]))

get_build_maps(man) == build_maps_from(man, 1, <<>>)

----------------------------------------------------------------------------
(* pack, under the Python 2 its calls are written for: a file read gives   *)
(* bytes, which text_type decodes, and the target is written as bytes       *)

None == <<"None">>

\* A text is the sequence of its pieces: a white-space character (" ", "\n"),
\* a single quote, the opening and the closing of a comment, or another
\* character.
Quote == "'"
Open == "<!--"
Close == "-->"
Whitespace == {" ", "\n"}

\* the text of the html files below the applications
HtmlText == <<Open, "c", Close, " ", "\n", "i", "t", Quote, "s">>

\* the text of a file, named after the file; "e.js" holds nothing to keep
read(f) == [of |-> f, blank |-> Stem(f) = "e",
            text |-> IF f.s[1][Len(f.s[1])] = "html" THEN HtmlText ELSE <<>>]

\* re.sub("\s+", " ", content): every run of white space becomes one space
RECURSIVE collapse_whitespace(_)
collapse_whitespace(content) ==
    IF content = <<>> THEN <<>>
    ELSE IF Head(content) \in Whitespace
    THEN IF Len(content) > 1 /\ content[2] \in Whitespace
         THEN collapse_whitespace(Tail(content))
         ELSE <<" ">> \o collapse_whitespace(Tail(content))
    ELSE <<Head(content)>> \o collapse_whitespace(Tail(content))

\* re.sub("(<!--.*?-->)", "", content): from an opening to the nearest
\* closing after it, unless a line break lies between ("." matches none)
RECURSIVE strip_comments(_)
strip_comments(content) ==
    IF content = <<>> THEN <<>>
    ELSE LET ends == {j \in 2..Len(content) :
                         /\ content[j] = Close
                         /\ \A h \in 2..(j - 1) : content[h] # Close /\ content[h] # "\n"}
         IN IF Head(content) = Open /\ ends # {}
            THEN strip_comments(SubSeq(content, (CHOOSE j \in ends : TRUE) + 1, Len(content)))
            ELSE <<Head(content)>> \o strip_comments(Tail(content))

\* content.replace(old, new), old one piece long
str_replace(content, old, new) ==
    [i \in 1..Len(content) |-> IF content[i] = old THEN new ELSE content[i]]

\* lines 384-392. The literal "\'" of line 392 denotes the one-character
\* string "'": the replacement puts a quote where a quote was
scrub_html_template(content) ==
    str_replace(strip_comments(collapse_whitespace(content)), Quote, Quote)

\* JavascriptMinify.minify: the minified text, empty for a blank file
jsm_minify(data) == IF data.blank THEN <<>> ELSE <<[t |-> "min", of |-> data.of]>>

\* lines 378-381: the statement that registers a template
html_to_js_template(f, data) ==
    <<[t |-> "tpl", of |-> data.of, key |-> rsplit_dot(f)[1],
       content |-> scrub_html_template(data.text)]>>

\* a dispatch that ends what the minifier returns with ";" even when it
\* returns nothing
transform_always_terminated(f, suffix, outtype, no_compress) ==
    LET data == read(f)
        parts == rsplit_dot(f)
        extn == parts[2]
    IN IF Len(parts) < 2 THEN [txt |-> <<>>, rule |-> "error"]
       ELSE IF outtype = <<"js">> /\ extn = <<"js">> /\ ~no_compress
               /\ suffix # <<"concat">> /\ ~has_min_marker(f)
       THEN [txt |-> jsm_minify(data) \o <<[t |-> ";", of |-> data.of]>>, rule |-> "minify"]
       ELSE IF outtype = <<"js">> /\ extn = <<"html">>
       THEN [txt |-> html_to_js_template(f, data), rule |-> "template"]
       ELSE [txt |-> <<[t |-> "hdr", of |-> f], [t |-> "raw", of |-> data.of]>>,
             rule |-> "raw"]

\* a dispatch that minifies a source although it carries the concat flag
transform_ignores_flag(f, suffix, outtype, no_compress) ==
    LET data == read(f)
        parts == rsplit_dot(f)
        extn == parts[2]
    IN IF Len(parts) < 2 THEN [txt |-> <<>>, rule |-> "error"]
       ELSE IF outtype = <<"js">> /\ extn = <<"js">> /\ ~no_compress /\ ~has_min_marker(f)
       THEN LET minified == jsm_minify(data)
            IN [txt |-> IF minified # <<>> THEN minified \o <<[t |-> ";", of |-> data.of]>> ELSE <<>>,
                rule |-> "minify"]
       ELSE IF outtype = <<"js">> /\ extn = <<"html">>
       THEN [txt |-> html_to_js_template(f, data), rule |-> "template"]
       ELSE [txt |-> <<[t |-> "hdr", of |-> f], [t |-> "raw", of |-> data.of]>>,
             rule |-> "raw"]

\* lines 341-366 for a file that was read: what is appended to outtxt, and the
\* rule that applied; a name without a dot ends in IndexError
transform(f, suffix, outtype, no_compress) ==
    LET data == read(f)
        parts == rsplit_dot(f)
        extn == parts[2]
    IN IF Len(parts) < 2 THEN [txt |-> <<>>, rule |-> "error"]
       ELSE IF outtype = <<"js">> /\ extn = <<"js">> /\ ~no_compress
               /\ suffix # <<"concat">> /\ ~has_min_marker(f)
       THEN LET minified == jsm_minify(data)
            IN [txt |-> IF minified # <<>> THEN minified \o <<[t |-> ";", of |-> data.of]>> ELSE <<>>,
                rule |-> "minify"]
       ELSE IF outtype = <<"js">> /\ extn = <<"html">>
       THEN [txt |-> html_to_js_template(f, data), rule |-> "template"]
       ELSE [txt |-> <<[t |-> "hdr", of |-> f], [t |-> "raw", of |-> data.of]>>,
             rule |-> "raw"]

\* a turn that puts the new text in front of outtxt
pack_source_prepends(acc, f0, outtype, no_compress, mt) ==
    IF acc.raised THEN acc
    ELSE IF Len(f0.s) > 2 THEN [acc EXCEPT !.raised = TRUE]
    ELSE LET f == IF Len(f0.s) > 1 THEN [f0 EXCEPT !.s = <<f0.s[1]>>] ELSE f0
             suffix == IF Len(f0.s) > 1 THEN f0.s[2] ELSE None
         IN IF ~source_exists(f) \/ source_isdir(f)
            THEN [acc EXCEPT !.trace = Append(@, [f |-> f, rule |-> "skip"])]
            ELSE LET done == transform(f, suffix, outtype, no_compress)
                 IN [outtxt |-> done.txt \o acc.outtxt,
                     ts |-> (f :> mt[f]) @@ acc.ts,
                     trace |-> Append(acc.trace, [f |-> f, rule |-> done.rule]),
                     raised |-> FALSE]

\* a turn that fails on a missing source instead of going on to the next
pack_source_fails_on_missing(acc, f0, outtype, no_compress, mt) ==
    IF acc.raised THEN acc
    ELSE IF Len(f0.s) > 2 THEN [acc EXCEPT !.raised = TRUE]
    ELSE LET f == IF Len(f0.s) > 1 THEN [f0 EXCEPT !.s = <<f0.s[1]>>] ELSE f0
             suffix == IF Len(f0.s) > 1 THEN f0.s[2] ELSE None
         IN IF ~source_exists(f) \/ source_isdir(f)
            THEN [acc EXCEPT !.raised = TRUE]
            ELSE LET done == transform(f, suffix, outtype, no_compress)
                 IN [outtxt |-> acc.outtxt \o done.txt,
                     ts |-> (f :> mt[f]) @@ acc.ts,
                     trace |-> Append(acc.trace, [f |-> f, rule |-> done.rule]),
                     raised |-> FALSE]

\* a turn that records the modification time under the source string as it
\* stands in the map, flag and all
pack_source_keys_by_entry(acc, f0, outtype, no_compress, mt) ==
    IF acc.raised THEN acc
    ELSE IF Len(f0.s) > 2 THEN [acc EXCEPT !.raised = TRUE]
    ELSE LET f == IF Len(f0.s) > 1 THEN [f0 EXCEPT !.s = <<f0.s[1]>>] ELSE f0
             suffix == IF Len(f0.s) > 1 THEN f0.s[2] ELSE None
         IN IF ~source_exists(f) \/ source_isdir(f)
            THEN [acc EXCEPT !.trace = Append(@, [f |-> f, rule |-> "skip"])]
            ELSE LET done == transform(f, suffix, outtype, no_compress)
                 IN [outtxt |-> acc.outtxt \o done.txt,
                     ts |-> (f0 :> mt[f]) @@ acc.ts,
                     trace |-> Append(acc.trace, [f |-> f, rule |-> done.rule]),
                     raised |-> FALSE]

\* lines 333-370: one turn of the loop over the sources. acc holds outtxt,
\* the timestamps, what was done with each source so far, and whether an
\* exception has left the loop
pack_source(acc, f0, outtype, no_compress, mt) ==
    IF acc.raised THEN acc
    ELSE IF Len(f0.s) > 2 THEN [acc EXCEPT !.raised = TRUE]
    ELSE LET f == IF Len(f0.s) > 1 THEN [f0 EXCEPT !.s = <<f0.s[1]>>] ELSE f0
             suffix == IF Len(f0.s) > 1 THEN f0.s[2] ELSE None
         IN IF ~source_exists(f) \/ source_isdir(f)
            THEN [acc EXCEPT !.trace = Append(@, [f |-> f, rule |-> "skip"])]
            ELSE LET done == transform(f, suffix, outtype, no_compress)
                 IN [outtxt |-> acc.outtxt \o done.txt,
                     ts |-> (f :> mt[f]) @@ acc.ts,
                     trace |-> Append(acc.trace, [f |-> f, rule |-> done.rule]),
                     raised |-> FALSE]

RECURSIVE pack_loop(_, _, _, _, _)
pack_loop(acc, sources, outtype, no_compress, mt) ==
    IF sources = <<>> THEN acc
    ELSE pack_loop(pack_source(acc, Head(sources), outtype, no_compress, mt),
                   Tail(sources), outtype, no_compress, mt)

\* lines 326-375: the timestamps after the call, the text written to the
\* target (written only when no exception left the loop), and the trace
pack(target, sources, no_compress, ts, mt) ==
    LET outtype == <<target[Len(target)]>>
    IN pack_loop([outtxt |-> <<>>, ts |-> ts, trace |-> <<>>, raised |-> FALSE],
                 sources, outtype, no_compress, mt)

\* lines 295-296, the targets in the order they are iterated: the
\* timestamps and target files afterwards; an exception of pack ends build
RECURSIVE build_loop(_, _, _, _, _)
build_loop(acc, build_maps, order, no_compress, mt) ==
    IF order = <<>> \/ acc.raised THEN acc
    ELSE LET t == Head(order)
             r == pack(t, build_maps[t], no_compress, acc.ts, mt)
         IN build_loop([ts |-> r.ts,
                        outputs |-> IF r.raised THEN acc.outputs ELSE (t :> r.outtxt) @@ acc.outputs,
                        raised |-> r.raised],
                       build_maps, Tail(order), no_compress, mt)

\* lines 292-296, build_maps being what get_build_maps() returned
build(build_maps, order, no_compress, ts, outs, mt) ==
    build_loop([ts |-> ts, outputs |-> outs, raised |-> FALSE],
               build_maps, order, no_compress, mt)

----------------------------------------------------------------------------
(* files_dirty *)

\* a scan that notes a dirty file and goes on to the end
RECURSIVE dirty_scan_to_end(_, _, _, _)
dirty_scan_to_end(sources, ts, mt, examined) ==
    IF sources = <<>>
    THEN [result |-> \E i \in 1..Len(examined) :
                        examined[i] \notin DOMAIN ts \/ mt[examined[i]] # ts[examined[i]],
          examined |-> examined, raised |-> FALSE]
    ELSE LET f0 == Head(sources)
             f == IF Len(f0.s) > 1 THEN [f0 EXCEPT !.s = <<f0.s[1]>>] ELSE f0
         IN IF Len(f0.s) > 2
            THEN [result |-> FALSE, examined |-> examined, raised |-> TRUE]
            ELSE IF ~source_exists(f) \/ source_isdir(f)
            THEN dirty_scan_to_end(Tail(sources), ts, mt, examined)
            ELSE dirty_scan_to_end(Tail(sources), ts, mt, Append(examined, f))

\* lines 397-404 over the sources in scanning order: the answer, and the
\* files whose modification time was read
RECURSIVE dirty_scan(_, _, _, _)
dirty_scan(sources, ts, mt, examined) ==
    IF sources = <<>> THEN [result |-> FALSE, examined |-> examined, raised |-> FALSE]
    ELSE LET f0 == Head(sources)
             f == IF Len(f0.s) > 1 THEN [f0 EXCEPT !.s = <<f0.s[1]>>] ELSE f0
         IN IF Len(f0.s) > 2
            THEN [result |-> FALSE, examined |-> examined, raised |-> TRUE]
            ELSE IF ~source_exists(f) \/ source_isdir(f)
            THEN dirty_scan(Tail(sources), ts, mt, examined)
            ELSE IF f \notin DOMAIN ts \/ mt[f] # ts[f]
            THEN [result |-> TRUE, examined |-> Append(examined, f), raised |-> FALSE]
            ELSE dirty_scan(Tail(sources), ts, mt, Append(examined, f))

\* the sources of the targets, in the order the targets are iterated
RECURSIVE Flatten(_, _)
Flatten(build_maps, order) ==
    IF order = <<>> THEN <<>>
    ELSE build_maps[Head(order)] \o Flatten(build_maps, Tail(order))

files_dirty(man, order, ts, mt) == dirty_scan(Flatten(get_build_maps(man), order), ts, mt, <<>>)

----------------------------------------------------------------------------
(* The state of the pipeline *)

\* the lists of three different sources
Triples(S) == {l \in [1..3 -> S] : \A i, j \in 1..3 : i # j => l[i] # l[j]}

\* the source lists of the first application's target: the three kinds of
\* source in every order, and lists with a missing file or a directory
JsLists ==
    {[i \in 1..3 |-> Plain(l[i])] :
        l \in Triples({F_js, G_concat, T_html})
               \cup {<<Gone_js, F_js, T_html>>, <<G_concat, Lib_dir, F_js>>,
                     <<Lib_dir, Gone_js, T_html>>}}

NoManifest == [present |-> FALSE, valid |-> TRUE, map |-> <<>>]

\* the maps an application's manifest file may hold
MapsOf(a) ==
    CASE a = "a1" -> {(JsTarget :> l) : l \in JsLists}
      [] a = "a2" -> {(JsTarget :> <<Pair("a1", F_js), Plain(T_html)>>),
                      (CssTarget :> <<Plain(F_js), Plain(G_concat)>>),
                      (JsTarget :> <<Plain(T_html)>>)
                          @@ (CssTarget :> <<Plain(G_concat), Plain(Gone_js)>>)}
      [] OTHER -> {(CssTarget :> <<Plain(T_html), Plain(F_js)>>)}

\* the manifest files an application may have: none, one that parses, or
\* one whose text does not parse (map is what it was meant to hold)
ManifestsOf(a) ==
    {NoManifest}
    \cup {[present |-> TRUE, valid |-> TRUE, map |-> m] : m \in MapsOf(a)}
    \cup {[present |-> TRUE, valid |-> FALSE, map |-> CHOOSE m \in MapsOf(a) : TRUE]}

\* the regular files below the applications
Files == {join(app_base_path(app_paths[i]), s) : i \in 1..Len(app_paths), s \in {F_js, <<G_concat[1]>>, T_html}}

\* the files the current manifests name
Sources(man) ==
    LET bm == get_build_maps(man)
    IN {f \in Files : \E t \in DOMAIN bm : \E i \in 1..Len(bm[t]) : bm[t][i].s[1] = f.s[1]
                                                                 /\ bm[t][i].root = f.root}

Orders(S) == {o \in [1..Cardinality(S) -> S] : \A i, j \in 1..Cardinality(S) : i # j => o[i] # o[j]}

BuildInit ==
    /\ manifest \in [{app_paths[i] : i \in 1..Len(app_paths)} -> UNION {ManifestsOf(app_paths[i]) : i \in 1..Len(app_paths)}]
    /\ \A i \in 1..Len(app_paths) : manifest[app_paths[i]] \in ManifestsOf(app_paths[i])
    /\ mtime = [f \in Files |-> 1]
    /\ timestamps = <<>>
    /\ outputs = <<>>
    /\ last = [op |-> "start"]
    /\ touches = 0

\* get_build_maps()
GetBuildMaps ==
    /\ last' = [op |-> "maps", maps |-> get_build_maps(manifest)]
    /\ UNCHANGED <<manifest, mtime, timestamps, outputs, touches>>

\* pack(target, sources, no_compress, verbose) for a target of the map
Pack ==
    \E build_maps \in {get_build_maps(manifest)} :
    \E t \in DOMAIN build_maps, nc \in BOOLEAN :
    \E r \in {pack(t, build_maps[t], nc, timestamps, mtime)} :
        /\ timestamps' = r.ts
        /\ outputs' = IF r.raised THEN outputs ELSE (t :> r.outtxt) @@ outputs
        /\ last' = [op |-> "pack", target |-> t, sources |-> build_maps[t], no_compress |-> nc,
                    trace |-> r.trace, raised |-> r.raised, outtxt |-> r.outtxt]
        /\ UNCHANGED <<manifest, mtime, touches>>

\* build(no_compress, verbose), the targets iterated in some order
Build ==
    /\ \E build_maps \in {get_build_maps(manifest)} :
       \E order \in Orders(DOMAIN build_maps), nc \in BOOLEAN :
          \E r \in {build(build_maps, order, nc, timestamps, outputs, mtime)} :
             /\ timestamps' = r.ts
             /\ outputs' = r.outputs
             /\ last' = [op |-> "build", order |-> order, no_compress |-> nc,
                         raised |-> r.raised]
    /\ UNCHANGED <<manifest, mtime, touches>>

\* a source file is modified on disk
Touch ==
    /\ touches < MaxTouches
    /\ \E f \in Sources(manifest) :
          /\ mtime' = [mtime EXCEPT ![f] = @ + 1]
          /\ last' = [op |-> "touch", f |-> f]
    /\ touches' = touches + 1
    /\ UNCHANGED <<manifest, timestamps, outputs>>

\* files_dirty(), the targets iterated in some order
FilesDirty ==
    /\ \E order \in Orders(DOMAIN get_build_maps(manifest)) :
          \E r \in {files_dirty(manifest, order, timestamps, mtime)} :
             last' = [op |-> "dirty", order |-> order, result |-> r.result,
                      examined |-> r.examined, raised |-> r.raised,
                      after |-> IF last.op = "build" /\ ~last.raised THEN "build" ELSE "other"]
    /\ UNCHANGED <<manifest, mtime, timestamps, outputs, touches>>

----------------------------------------------------------------------------
(* The specifications *)

StageIdle ==
    /\ fs = FsOf({<<assets_path, Dir>>})
    /\ pc = "idle"
    /\ restore = FALSE
    /\ make_copy = FALSE
    /\ appIdx = 0
    /\ symlinks = <<>>
    /\ removed = {}
    /\ log = <<>>
    /\ runs = 0

BuildIdle ==
    /\ manifest = [a \in {app_paths[i] : i \in 1..Len(app_paths)} |-> NoManifest]
    /\ mtime = [f \in Files |-> 1]
    /\ timestamps = <<>>
    /\ outputs = <<>>
    /\ last = [op |-> "start"]
    /\ touches = 0

CallIdle ==
    /\ html = <<>>
    /\ registered = <<>>
    /\ linkcall = [op |-> "none", n |-> 0]

\* staging
Init == StageInit /\ BuildIdle /\ CallIdle

Next ==
    \/ MakeAssetDirs /\ UNCHANGED <<buildVars, callVars>>
    \/ NextApp /\ UNCHANGED <<buildVars, callVars>>
    \/ StageAlias /\ UNCHANGED <<buildVars, callVars>>
    \/ EndApp /\ UNCHANGED <<buildVars, callVars>>
    \/ Return /\ UNCHANGED <<buildVars, callVars>>

Spec == Init /\ [][Next]_vars

\* the bundle pipeline
InitBuild == StageIdle /\ BuildInit /\ CallIdle

NextBuild ==
    \/ GetBuildMaps /\ UNCHANGED <<stageVars, callVars>>
    \/ Pack /\ UNCHANGED <<stageVars, callVars>>
    \/ Build /\ UNCHANGED <<stageVars, callVars>>
    \/ Touch /\ UNCHANGED <<stageVars, callVars>>
    \/ FilesDirty /\ UNCHANGED <<stageVars, callVars>>

SpecBuild == InitBuild /\ [][NextBuild]_vars

----------------------------------------------------------------------------
(* symlink on its own *)

\* calls of symlink in one behaviour
MaxCalls == 2

\* what is at d/l before the first call: nothing, a file, a real directory,
\* a link to a directory, a link to a file, a link that leads nowhere
LinkKinds == {"none", "file", "dir", "link_dir", "link_file", "dangling"}

LinkEntries(kind, taken) ==
    {<<<<"d">>, Dir>>, <<<<"t">>, Dir>>, <<<<"u">>, Dir>>, <<<<"old">>, Dir>>,
     <<<<"oldf">>, File("O")>>}
    \cup (IF taken THEN {<<<<"d", TempNames[1]>>, File("T")>>} ELSE {})
    \cup (CASE kind = "none" -> {}
            [] kind = "file" -> {<<<<"d", "l">>, File("L")>>}
            [] kind = "dir" -> {<<<<"d", "l">>, Dir>>, <<<<"d", "l", "x">>, File("X")>>}
            [] kind = "link_dir" -> {<<<<"d", "l">>, Link(<<"old">>)>>}
            [] kind = "link_file" -> {<<<<"d", "l">>, Link(<<"oldf">>)>>}
            [] kind = "dangling" -> {<<<<"d", "l">>, Link(<<"gone">>)>>})

LinkInit ==
    /\ \E kind \in LinkKinds, taken \in BOOLEAN : fs = FsOf(LinkEntries(kind, taken))
    /\ pc = "idle"
    /\ restore = FALSE
    /\ make_copy = FALSE
    /\ appIdx = 0
    /\ symlinks = <<>>
    /\ removed = {}
    /\ log = <<>>
    /\ runs = 0

\* symlink(target, link_name, overwrite)
SymlinkCall ==
    /\ linkcall.n < MaxCalls
    /\ \E target \in {<<"t">>, <<"u">>}, link_name \in {<<"d", "l">>, <<"d", "m">>, <<"nd", "l">>},
          overwrite \in BOOLEAN :
          \E r \in {symlink(fs, target, link_name, overwrite)},
             temp \in {mktemp(fs, dirname(link_name))} :
             /\ fs' = r.fs
             /\ linkcall' = [op |-> "symlink", n |-> linkcall.n + 1, target |-> target,
                             link_name |-> link_name, overwrite |-> overwrite,
                             err |-> r.err, preFs |-> fs, pre |-> StateOf(fs, link_name),
                             preIsdir |-> path_isdir(fs, link_name),
                             temp |-> temp,
                             tempMade |-> overwrite /\ os_symlink(fs, target, temp).err = "ok"]
    /\ UNCHANGED <<html, registered>>

InitLink == LinkInit /\ BuildIdle /\ CallIdle

NextLink ==
    SymlinkCall /\ UNCHANGED <<pc, restore, make_copy, appIdx, symlinks, removed, log, runs, buildVars>>

SpecLink == InitLink /\ [][NextLink]_vars

\* link_name is a link to the target of the call
Replaced == path_islink(fs, linkcall.link_name)
            /\ fs[LLoc(fs, linkcall.link_name)].to = linkcall.target

\* C15: symlink with overwrite fails with the directory-collision error only
\* where link_name is a real directory; where link_name is a symbolic link,
\* whatever it leads to, no error is raised and link_name is afterwards a
\* link to the target.
C15_OnlyRealDirectoryRefused ==
    (linkcall.op = "symlink" /\ linkcall.overwrite) =>
        /\ linkcall.err = "IsADirectoryError" => linkcall.pre = "dir"
        /\ linkcall.pre \in {"link", "dangling"} => (linkcall.err = "ok" /\ Replaced)

\* C16: when symlink with overwrite fails after it made the temporary link,
\* the temporary link is gone, the filesystem (link_name with it) is as it
\* was before the call, and the caller gets the error; a directory at
\* link_name, real or behind a link, is such a failure.
C16_FailureCleansUp ==
    (linkcall.op = "symlink" /\ linkcall.overwrite /\ linkcall.tempMade) =>
        /\ linkcall.preIsdir => linkcall.err = "IsADirectoryError"
        /\ linkcall.err # "ok" =>
              /\ ~path_lexists(fs, linkcall.temp)
              /\ fs = linkcall.preFs

C16_Witness ==
    /\ linkcall.op = "symlink" /\ linkcall.overwrite /\ linkcall.tempMade
    /\ linkcall.err = "IsADirectoryError"
    /\ linkcall.pre = "dir"
    /\ linkcall.temp = <<"d", TempNames[2]>>

----------------------------------------------------------------------------
(* pack on its own, over any list of sources *)

\* sources of one target
MaxSources == 3

PackSources == {F_js, G_concat, T_html, Gone_js, Lib_dir, E_js, E_concat, M_min, Readme,
                Two_colons}

\* the regular files among them
PackFiles == {f \in {join(app_base_path("a1"), <<s[1]>>) : s \in PackSources} :
                 source_exists(f) /\ ~source_isdir(f)}

PackInit ==
    /\ manifest = [a \in {app_paths[i] : i \in 1..Len(app_paths)} |-> NoManifest]
    /\ mtime = [f \in PackFiles |-> 1]
    /\ timestamps = <<>>
    /\ outputs = <<>>
    /\ touches = 0
    /\ \E t \in {JsTarget, CssTarget}, nc \in BOOLEAN,
          l \in UNION {[1..n -> PackSources] : n \in 1..MaxSources} :
          last = [op |-> "args", target |-> t, no_compress |-> nc,
                  sources |-> [i \in 1..Len(l) |-> join(app_base_path("a1"), l[i])]]

\* pack(target, sources, no_compress, verbose)
PackCall ==
    /\ last.op = "args"
    /\ \E r \in {pack(last.target, last.sources, last.no_compress, timestamps, mtime)} :
          /\ timestamps' = r.ts
          /\ outputs' = IF r.raised THEN outputs ELSE (last.target :> r.outtxt) @@ outputs
          /\ last' = [op |-> "pack", target |-> last.target, sources |-> last.sources,
                      no_compress |-> last.no_compress,
                      trace |-> r.trace, raised |-> r.raised, outtxt |-> r.outtxt]
    /\ UNCHANGED <<manifest, mtime, touches>>

InitPack == StageIdle /\ PackInit /\ CallIdle

NextPack == PackCall /\ UNCHANGED <<stageVars, callVars>>

SpecPack == InitPack /\ [][NextPack]_vars

\* a list without its i-th entry
Drop(l, i) == SubSeq(l, 1, i - 1) \o SubSeq(l, i + 1, Len(l))

\* the i-th source went to the minifier, which returned nothing
MinifiedToNothing(i) ==
    /\ i <= Len(last.trace)
    /\ last.trace[i].rule = "minify"
    /\ jsm_minify(read(last.trace[i].f)) = <<>>

\* C13: a source the minifier returns nothing for adds nothing to outtxt: the
\* text is what pack makes of the list without that source, and holds no
\* terminator of that source.
C13_EmptyMinifiedAddsNothing ==
    last.op = "pack" =>
        \A i \in 1..Len(last.sources) :
            MinifiedToNothing(i) =>
                /\ last.outtxt = pack(last.target, Drop(last.sources, i), last.no_compress,
                                      <<>>, mtime).outtxt
                /\ \A n \in 1..Len(last.outtxt) :
                      ~(last.outtxt[n].t = ";" /\ last.outtxt[n].of = last.trace[i].f)

C13_Witness ==
    /\ last.op = "pack"
    /\ ~last.raised
    /\ last.target \in DOMAIN outputs
    /\ \E i \in 2..Len(last.sources) :
          /\ MinifiedToNothing(i)
          /\ last.trace[i - 1].rule = "minify"
          /\ Len(outputs[last.target]) = 2

\* C17: whatever fails while pack handles one source, pack goes on: every
\* source of the list is handled or skipped in its turn, no exception leaves
\* pack, and the target is written with the text made so far.
C17_FailuresConfined ==
    last.op = "pack" =>
        /\ ~last.raised
        /\ Len(last.trace) = Len(last.sources)
        /\ last.target \in DOMAIN outputs
        /\ outputs[last.target] = last.outtxt

\* the i-th source of the call is a file pack handled
Handled(i) == i <= Len(last.trace) /\ last.trace[i].rule # "skip"

\* the flag of the i-th source string
FlagOf(i) == IF Len(last.sources[i].s) = 2 THEN last.sources[i].s[2] ELSE None

\* the last part of the name of the i-th source, <<>> for a name without a dot
ExtOf(i) == LET name == last.sources[i].s[1]
            IN IF Len(name) > 1 THEN <<name[Len(name)]>> ELSE <<>>

\* the minifier is due for the i-th source
ToMinify(i) ==
    /\ last.target = JsTarget
    /\ ExtOf(i) = <<"js">>
    /\ ~last.no_compress
    /\ FlagOf(i) # <<"concat">>
    /\ ~has_min_marker(last.trace[i].f)

\* the text pack appended by a rule for file f is in outtxt
Appended(rule, f) ==
    CASE rule = "raw" ->
           \E n \in 1..(Len(last.outtxt) - 1) :
               last.outtxt[n] = [t |-> "hdr", of |-> f] /\ last.outtxt[n + 1] = [t |-> "raw", of |-> f]
      [] rule = "template" ->
           \E n \in 1..Len(last.outtxt) : last.outtxt[n].t = "tpl" /\ last.outtxt[n].of = f
      [] rule = "minify" ->
           jsm_minify(read(f)) # <<>> =>
               \E n \in 1..(Len(last.outtxt) - 1) :
                   last.outtxt[n] = [t |-> "min", of |-> f] /\ last.outtxt[n + 1] = [t |-> ";", of |-> f]
      [] OTHER -> TRUE

\* the rule the claim gives for the i-th source
RuleFor(i) ==
    IF ToMinify(i) THEN "minify"
    ELSE IF last.target = JsTarget /\ ExtOf(i) = <<"html">> THEN "template"
    ELSE "raw"

\* C18 as stated: every file pack handles goes to the minifier exactly when
\* the target is js, the source is .js, minification is on, the flag is not
\* concat and the name has no ".min."; an html source of a js target is
\* converted to a template; every other source is appended raw with its
\* header.
C18_EverySourceDispatched ==
    last.op = "pack" =>
        \A i \in 1..Len(last.sources) :
            Handled(i) => /\ last.trace[i].rule = RuleFor(i)
                          /\ Appended(RuleFor(i), last.trace[i].f)

\* C18 amended: the same for every file whose name has a dot; for a name
\* without a dot nothing is appended (the failure is caught).
C18_DottedSourceDispatched ==
    last.op = "pack" =>
        \A i \in 1..Len(last.sources) :
            Handled(i) =>
                IF ExtOf(i) = <<>> THEN last.trace[i].rule = "error"
                ELSE /\ last.trace[i].rule = RuleFor(i)
                     /\ Appended(RuleFor(i), last.trace[i].f)

C18_Witness ==
    /\ last.op = "pack"
    /\ Len(last.trace) = 3
    /\ \E i, j, k \in 1..3 :
          /\ last.trace[i].rule = "minify" /\ Appended("minify", last.trace[i].f)
          /\ jsm_minify(read(last.trace[i].f)) # <<>>
          /\ last.trace[j].rule = "raw" /\ FlagOf(j) = <<"concat">> /\ ExtOf(j) = <<"js">>
          /\ last.trace[k].rule = "raw" /\ has_min_marker(last.trace[k].f)

----------------------------------------------------------------------------
(* html_to_js_template on its own *)

\* pieces in the text of an html file
MaxHtml == 5

Pieces == Whitespace \cup {Quote, Open, Close, "x"}

FooHtml == join(app_base_path("a1"), << <<"foo", "html">> >>)

TemplateInit ==
    /\ html \in UNION {[1..n -> Pieces] : n \in 0..MaxHtml}
    /\ registered = <<>>
    /\ linkcall = [op |-> "none", n |-> 0]

\* html_to_js_template("<app>/foo.html", content)
HtmlToJsTemplate ==
    /\ registered = <<>>
    /\ registered' = html_to_js_template(FooHtml, [of |-> FooHtml, blank |-> FALSE, text |-> html])
    /\ UNCHANGED <<html, linkcall>>

InitTemplate == StageIdle /\ BuildIdle /\ TemplateInit

NextTemplate == HtmlToJsTemplate /\ UNCHANGED <<stageVars, buildVars>>

SpecTemplate == InitTemplate /\ [][NextTemplate]_vars

\* C11: the statement made of foo.html has the key "foo", and in its content
\* no line break and no run of white space is left, no comment is left, and
\* no quote stands without a backslash before it.
C11_QuotesEscaped ==
    registered # <<>> =>
        LET content == registered[1].content
        IN /\ registered[1].key = <<"foo">>
           /\ \A i \in 1..Len(content) : content[i] # "\n"
           /\ content = strip_comments(content)
           /\ \A i \in 1..Len(content) : content[i] # Quote

----------------------------------------------------------------------------
(* Claims about the bundle pipeline *)

Targets == {JsTarget, CssTarget}

\* the applications whose manifest was loaded and declares target t
Declarers(t) ==
    {i \in 1..Len(app_paths) :
        LET m == manifest[app_paths[i]] IN m.present /\ m.valid /\ t \in DOMAIN m.map}

LastOf(I) == CHOOSE i \in I : \A j \in I : j <= i

\* the paths of the sources application i declares for t
Declared(i, t) ==
    LET l == manifest[app_paths[i]].map[t]
    IN [k \in 1..Len(l) |->
           [root |-> app_base_path(IF l[k].tag = "list" THEN l[k].module ELSE app_paths[i]),
            s |-> l[k].s]]

\* C5: a target declared by one application holds that application's source
\* list; a target declared by several holds exactly the list of the last of
\* them in input order; no other target is in the map.
C5_LastDeclarerWins ==
    last.op = "maps" =>
        \A t \in Targets :
            /\ Cardinality(Declarers(t)) = 0 => t \notin DOMAIN last.maps
            /\ Cardinality(Declarers(t)) = 1 =>
                  (t \in DOMAIN last.maps
                   /\ last.maps[t] = Declared(CHOOSE i \in Declarers(t) : TRUE, t))
            /\ Cardinality(Declarers(t)) > 1 =>
                  (t \in DOMAIN last.maps
                   /\ last.maps[t] = Declared(LastOf(Declarers(t)), t)
                   /\ \A i \in Declarers(t) \ {LastOf(Declarers(t))} :
                         \A k \in 1..Len(Declared(i, t)) :
                            Declared(i, t)[k] \in {last.maps[t][n] : n \in 1..Len(last.maps[t])}
                               => Declared(i, t)[k] \in
                                     {Declared(LastOf(Declarers(t)), t)[n] :
                                         n \in 1..Len(Declared(LastOf(Declarers(t)), t))})

C5_Witness ==
    /\ last.op = "maps"
    /\ \E t \in Targets : Cardinality(Declarers(t)) = 1
    /\ \E t \in Targets : Cardinality(Declarers(t)) > 1
                          /\ \E i \in Declarers(t) : Declared(i, t) # last.maps[t]

\* the applications whose manifest file is there and does not parse
Bad == {i \in 1..Len(app_paths) :
           manifest[app_paths[i]].present /\ ~manifest[app_paths[i]].valid}

\* C10: with a manifest that does not parse, get_build_maps returns (it does
\* not raise) the merge of the other applications' manifests, those before and
\* those after the bad one, and nothing of the bad one.
C10_BadManifestSkipped ==
    (last.op = "maps" /\ Bad # {}) =>
        /\ DOMAIN last.maps = {t \in Targets : Declarers(t) # {}}
        /\ \A t \in DOMAIN last.maps : last.maps[t] = Declared(LastOf(Declarers(t)), t)
        /\ \A i \in 1..Len(app_paths) : \A t \in Targets :
              (Declarers(t) = {i}) => last.maps[t] = Declared(i, t)

C10_Witness ==
    /\ last.op = "maps"
    /\ \E b \in Bad : /\ \E i \in 1..(b - 1) : \E t \in Targets : Declarers(t) = {i}
                      /\ \E i \in (b + 1)..Len(app_paths) : \E t \in Targets : i \in Declarers(t)
                      /\ \E t \in DOMAIN manifest[app_paths[b]].map :
                            t \in DOMAIN last.maps /\ last.maps[t] # Declared(b, t)

\* a source string without its flag
Flagless(f) == [f EXCEPT !.s = <<f.s[1]>>]

IsFile(f) == source_exists(f) /\ ~source_isdir(f)

IsDirty(f) == f \notin DOMAIN timestamps \/ mtime[f] # timestamps[f]

\* the files of a list of sources, in order
RECURSIVE FilesIn(_)
FilesIn(sources) ==
    IF sources = <<>> THEN <<>>
    ELSE (IF IsFile(Flagless(Head(sources))) THEN <<Flagless(Head(sources))>> ELSE <<>>)
         \o FilesIn(Tail(sources))

Scanned == FilesIn(Flatten(get_build_maps(manifest), last.order))

\* C7: when a source whose modification time a build recorded has another
\* modification time now, files_dirty returns True, and the files it examined
\* are those up to the first dirty one in scanning order and no later one.
C7_DirtyStopsAtFirst ==
    (last.op = "dirty"
     /\ \E i \in 1..Len(Scanned) : Scanned[i] \in DOMAIN timestamps /\ IsDirty(Scanned[i]))
        => /\ last.result = TRUE
           /\ ~last.raised
           /\ LET n == Len(last.examined)
              IN /\ n >= 1
                 /\ n <= Len(Scanned)
                 /\ last.examined = SubSeq(Scanned, 1, n)
                 /\ IsDirty(Scanned[n])
                 /\ \A i \in 1..(n - 1) : ~IsDirty(Scanned[i])

C7_Witness ==
    /\ last.op = "dirty"
    /\ last.result = TRUE
    /\ \E i \in 1..Len(Scanned) : /\ Scanned[i] \in DOMAIN timestamps
                                  /\ IsDirty(Scanned[i])
                                  /\ \A j \in 1..(i - 1) : ~IsDirty(Scanned[j])
                                  /\ i > 1
                                  /\ Len(last.examined) = i
                                  /\ i < Len(Scanned)

\* the places in the written target that hold text of source f
Places(f) == {n \in 1..Len(outputs[last.target]) : outputs[last.target][n].of = f}

\* C8: in the target written by pack of three sources A, B, C, every piece
\* of text of an earlier source stands before every piece of a later one,
\* and every source that was transformed has its text there.
C8_DeclaredOrderKept ==
    (last.op = "pack" /\ Len(last.sources) = 3)
        => /\ last.target \in DOMAIN outputs
           /\ Len(last.trace) = 3
           /\ \A i, j \in 1..3 :
                 i < j => \A a \in Places(last.trace[i].f), b \in Places(last.trace[j].f) : a < b
           /\ \A i \in 1..3 :
                 last.trace[i].rule \in {"minify", "template", "raw"}
                    => Places(last.trace[i].f) # {}
           /\ \A n \in 1..Len(outputs[last.target]) :
                 \E i \in 1..3 : outputs[last.target][n].of = last.trace[i].f

C8_Witness ==
    /\ last.op = "pack"
    /\ Len(last.sources) = 3
    /\ {last.trace[i].rule : i \in 1..Len(last.trace)} = {"minify", "template", "raw"}
    /\ \A i \in 1..3 : Places(last.trace[i].f) # {}

\* C9: a source that is missing or a directory is skipped by pack: nothing of
\* it is in the output and it gets no timestamp; every source after it is
\* still handled, and the target is written.
C9_MissingSourceSkipped ==
    last.op = "pack" =>
        \A i \in 1..Len(last.sources) :
            ~IsFile(Flagless(last.sources[i])) =>
                /\ ~last.raised
                /\ Len(last.trace) = Len(last.sources)
                /\ last.trace[i].rule = "skip"
                /\ Flagless(last.sources[i]) \notin DOMAIN timestamps
                /\ last.target \in DOMAIN outputs
                /\ outputs[last.target] = last.outtxt
                /\ Places(Flagless(last.sources[i])) = {}
                /\ \A j \in (i + 1)..Len(last.sources) :
                      IsFile(Flagless(last.sources[j])) =>
                          /\ last.trace[j].rule # "skip"
                          /\ Flagless(last.sources[j]) \in DOMAIN timestamps
                          /\ Places(Flagless(last.sources[j])) # {}

C9_Witness ==
    /\ last.op = "pack"
    /\ \E i \in 1..Len(last.sources) : \E j \in (i + 1)..Len(last.sources) :
          /\ ~IsFile(Flagless(last.sources[i]))
          /\ IsFile(Flagless(last.sources[j]))
          /\ Places(Flagless(last.sources[j])) # {}

\* C19: files_dirty called right after build has packed every target, with
\* nothing changed between, returns False, and every file of the map, those
\* named with a flag too, has its modification time on disk as timestamp.
C19_CleanAfterBuild ==
    (last.op = "dirty" /\ last.after = "build") =>
        /\ last.result = FALSE
        /\ ~last.raised
        /\ last.examined = Scanned
        /\ \A i \in 1..Len(Scanned) :
              Scanned[i] \in DOMAIN timestamps /\ timestamps[Scanned[i]] = mtime[Scanned[i]]

C19_Witness ==
    /\ last.op = "dirty" /\ last.after = "build"
    /\ last.result = FALSE
    /\ Len(last.order) = 2
    /\ touches = 1
    /\ \E i \in 1..Len(Scanned) : mtime[Scanned[i]] = 2
    /\ \E t \in DOMAIN get_build_maps(manifest) :
          \E i \in 1..Len(get_build_maps(manifest)[t]) : Len(get_build_maps(manifest)[t][i].s) = 2

====
